---- MODULE Spec2Model ----
(***************************************************************************)
(* Model of the URDF robot loader: parseURDF (urdfParser.ts, the version   *)
(* with the parsererror check) and loadURDFRobot / buildRobotStructure     *)
(* (urdfLoader.ts, the version with the module-level meshCache).           *)
(*                                                                         *)
(* JavaScript runs one task to completion: the synchronous part of         *)
(* loadURDFRobot between two awaits is never interleaved with the          *)
(* settling of a fetch or of a mesh import, and promise reactions          *)
(* (microtasks) run before the next task.  The model keeps the steps of    *)
(* the synchronous part apart (so that their order can be stated) and      *)
(* lets no task start while a call is inside them.                         *)
(*                                                                         *)
(* Strings the code computes with (file names, paths) are tuples of        *)
(* one-character strings.                                                  *)
(*                                                                         *)
(* The functions without state (resolvePath and the joint assembly of      *)
(* BabylonURDFLoader.ts, the inline path of loadURDFRobot, the numeric     *)
(* fields of urdfParser.ts) are operators; SpecPure starts from one set    *)
(* of arguments in eval and has one action per function, which puts the    *)
(* value into eval.                                                        *)
(***************************************************************************)
EXTENDS Integers, Sequences, FiniteSets, TLC

\* ---------------------------------------------------------------- bounds
MaxLinks == 2
MaxJoints == 2
MaxVisuals == 2

\* ------------------------------------------------------------ input sets
Calls == {1, 2}
TreeCalls == {1}
Names == <<"A", "B", "C", "D">>
NameSet == {"A", "B"}
NoLink == "X"
Endpoints == NameSet \cup {NoLink}
JointNames == <<"j1", "j2", "j3", "j4">>
MeshNames == <<"A", "B">>
MeshFilenames == { <<"m">>, <<"n">> }
BaseUrls == { <<"b">> }
SceneNames == <<"s1", "s2">>
Scenes == { SceneNames[k] : k \in DOMAIN SceneNames }

SeqsUpTo(S, n) == UNION { [1..k -> S] : k \in 0..n }

\* ------------------------------------------------------- string helpers
\* s.substring(i, j) on 1-based positions i..j
Sub(s, i, j) == IF j < i THEN << >> ELSE SubSeq(s, i, j)

\* 1-based position of the first occurrence of pat in s, 0 if there is none
IndexOf(s, pat) ==
  LET hits == { i \in 1..(Len(s) - Len(pat) + 1) : Sub(s, i, i + Len(pat) - 1) = pat }
  IN  IF hits = {} THEN 0 ELSE CHOOSE i \in hits : \A k \in hits : i <= k

\* String.prototype.replace(pat, rep) with a string pattern: the first
\* occurrence only, wherever it is in s
Replace(s, pat, rep) ==
  LET i == IndexOf(s, pat)
  IN  IF i = 0 THEN s
      ELSE Sub(s, 1, i - 1) \o rep \o Sub(s, i + Len(pat), Len(s))

\* 1-based position of the last occurrence of the character ch, 0 if none
LastIndexOf(s, ch) ==
  LET hits == { i \in 1..Len(s) : s[i] = ch }
  IN  IF hits = {} THEN 0 ELSE CHOOSE i \in hits : \A k \in hits : i >= k

ParentMarker == <<".", ".", "/">>

\* urdfLoader.ts 240-241
FullPath(baseUrl, filename) == baseUrl \o <<"/">> \o Replace(filename, ParentMarker, << >>)

\* urdfLoader.ts 244-246: the two arguments handed to ImportMeshAsync
RootUrl(fullPath) == Sub(fullPath, 1, LastIndexOf(fullPath, "/"))
SceneFilename(fullPath) == Sub(fullPath, LastIndexOf(fullPath, "/") + 1, Len(fullPath))

\* the location the mesh loader fetches for a given pair of arguments
ImportLocation(rootUrl, sceneFilename) == rootUrl \o sceneFilename

\* ------------------------------------------------------------ documents
\* A document is the markup the fetch delivers: whether it is well-formed,
\* whether its root element is a robot element, and the link and joint
\* elements under the root element, in document order.  A visual element: whether it has a geometry > mesh element, and
\* the filename attribute of that element (empty when absent).  A joint
\* element: whether it has a parent / child element, their link
\* attributes, and which of the type attribute, the axis element and the
\* limit element it declares.
VisualEl(f) == [mesh |-> TRUE, filename |-> f]
NoMeshVisualEl == [mesh |-> FALSE, filename |-> << >>]
LinkEl(n, vs) == [name |-> n, visuals |-> vs]
JointFields == { "type", "axis", "limit" }
JointEl(n, p, c) ==
  [name |-> n, parentEl |-> TRUE, childEl |-> TRUE, parent |-> p, child |-> c, declares |-> { "type" }]
NoParentJointEl(n, c) ==
  [name |-> n, parentEl |-> FALSE, childEl |-> TRUE, parent |-> "", child |-> c, declares |-> { "type" }]
DeclaringJointEl(n, p, c, fields) == [JointEl(n, p, c) EXCEPT !.declares = fields]
Doc(ls, js) == [wellFormed |-> TRUE, robot |-> TRUE, links |-> ls, joints |-> js]
NoRobotDoc(ls, js) == [wellFormed |-> TRUE, robot |-> FALSE, links |-> ls, joints |-> js]
MalformedDoc == [wellFormed |-> FALSE, robot |-> FALSE, links |-> << >>, joints |-> << >>]

\* Link lists for the mesh loading: the links MeshNames[i], MeshNames[i+1],
\* ... or a prefix of them, with visuals of MeshFilenames, at most budget
\* visuals in all.
RECURSIVE MeshLinkListsFrom(_, _)
MeshLinkListsFrom(i, budget) ==
  IF i > Len(MeshNames) THEN { << >> }
  ELSE { << >> } \cup
       UNION { { << LinkEl(MeshNames[i], vs) >> \o rest : rest \in MeshLinkListsFrom(i + 1, budget - Len(vs)) } :
               vs \in SeqsUpTo({ VisualEl(f) : f \in MeshFilenames }, budget) }

\* Documents for the mesh loading: the link lists with at most MaxVisuals
\* visuals, without joints; two links and a joint from the first to the
\* second, which has a visual; one mesh named with and without the parent marker; visuals
\* without a mesh element or without a filename; a well-formed document
\* whose root element is not a robot element; a document that is not
\* well-formed.
MeshDocs ==
  { Doc(ls, << >>) : ls \in MeshLinkListsFrom(1, MaxVisuals) }
    \cup { Doc(<< LinkEl(MeshNames[1], << >>), LinkEl(MeshNames[2], << VisualEl(<<"m">>) >>) >>,
               << JointEl(JointNames[1], MeshNames[1], MeshNames[2]) >>),
           Doc(<< LinkEl(MeshNames[1], << VisualEl(<<"m">>), VisualEl(<<".", ".", "/", "m">>) >>) >>, << >>),
           Doc(<< LinkEl(MeshNames[1], << VisualEl(<< >>), VisualEl(<<"m">>) >>) >>, << >>),
           Doc(<< LinkEl(MeshNames[1], << NoMeshVisualEl >>) >>, << >>),
           NoRobotDoc(<< LinkEl(MeshNames[1], << VisualEl(<<"m">>) >>) >>, << >>),
           MalformedDoc }

\* Documents for the tree: up to MaxLinks links with names of NameSet
\* (a name may repeat), no visuals, and up to MaxJoints joints between
\* any two names, also the name of no link; and two links with one joint
\* that declares any of its type, axis and limit.
JointElsAt(i) ==
  { JointEl(JointNames[i], p, c) : p \in Endpoints, c \in Endpoints }
    \cup { NoParentJointEl(JointNames[i], Names[1]) }
DeclaringDocs ==
  { Doc(<< LinkEl(Names[1], << >>), LinkEl(Names[2], << >>) >>,
        << DeclaringJointEl(JointNames[1], Names[1], Names[2], fields) >>) : fields \in SUBSET JointFields }
TreeDocs ==
  { Doc(ls, js) :
      ls \in SeqsUpTo({ LinkEl(n, << >>) : n \in NameSet }, MaxLinks),
      js \in { s \in SeqsUpTo(UNION { JointElsAt(i) : i \in 1..MaxJoints }, MaxJoints) :
                 \A i \in 1..Len(s) : s[i] \in JointElsAt(i) } }
    \cup DeclaringDocs

\* --------------------------------------------------------------- parser
\* urdfParser.ts 107-134
ParseVisuals(linkEl) ==
  LET kept == SelectSeq(linkEl.visuals, LAMBDA v : v.mesh /\ v.filename # << >>)
  IN  [i \in 1..Len(kept) |-> [filename |-> kept[i].filename]]

\* urdfParser.ts 94 and 137: querySelectorAll("robot > link") and
\* querySelectorAll("robot > joint") select nothing without a robot element
RobotLinkEls(doc) == IF doc.robot THEN doc.links ELSE << >>
RobotJointEls(doc) == IF doc.robot THEN doc.joints ELSE << >>

\* urdfParser.ts 93-105
ParseLinks(doc) ==
  LET els == RobotLinkEls(doc)
  IN  [i \in 1..Len(els) |-> [name |-> els[i].name, visuals |-> ParseVisuals(els[i])]]

\* urdfParser.ts 136-161
ParseJoints(doc) ==
  LET kept == SelectSeq(RobotJointEls(doc), LAMBDA j : j.parentEl /\ j.childEl)
  IN  [i \in 1..Len(kept) |->
         [name |-> kept[i].name, parent |-> kept[i].parent, child |-> kept[i].child,
          type |-> IF "type" \in kept[i].declares THEN "declared" ELSE "fixed",
          axis |-> "axis" \in kept[i].declares]]

\* console.warn of the parser: urdfParser.ts 115-118 and 146-149
ParseWarnings(doc) ==
  LET ls == RobotLinkEls(doc)
      js == RobotJointEls(doc)
  IN
  { [level |-> "warn", text |-> "Missing filename in mesh element", about |-> ""] :
      i \in { k \in 1..Len(ls) :
                \E v \in 1..Len(ls[k].visuals) :
                   ls[k].visuals[v].mesh /\ ls[k].visuals[v].filename = << >> } }
    \cup
  { [level |-> "warn", text |-> "Joint missing parent or child element", about |-> js[i].name] :
      i \in { k \in 1..Len(js) : ~(js[k].parentEl /\ js[k].childEl) } }

\* ParseURDF had it returned what it selects also for text that is not
\* well-formed
ParseURDFWithoutError(doc) ==
  [threw |-> FALSE, links |-> ParseLinks(doc), joints |-> ParseJoints(doc)]

\* urdfParser.ts 73-91: the parse throws on a parsererror element and on
\* nothing else; otherwise it returns the two lists
ParseURDF(doc) ==
  IF ~doc.wellFormed
    THEN [threw |-> TRUE, links |-> << >>, joints |-> << >>]
    ELSE [threw |-> FALSE, links |-> ParseLinks(doc), joints |-> ParseJoints(doc)]

\* ---------------------------------------------------------------- state
VARIABLES
  pc,            \* per call: where loadURDFRobot is
  baseUrl,       \* per call: the baseUrl argument
  urdfContent,   \* per call: the document the fetch delivered
  links,         \* per call: the links parseURDF returned
  joints,        \* per call: the joints parseURDF returned
  jidx,          \* per call: the next joint of joints.forEach
  robotRoot,     \* per call: the robotRoot node, 0 before it exists
  linkMap,       \* per call: link name -> node
  jointMap,      \* per call: joint name -> node
  meshPromises,  \* per call: the loadPromise of every visual, in order
  nodes,         \* every node created, in order of creation; a node is its index
  meshCache,     \* module level: full path -> promise of the import
  imports,       \* every ImportMeshAsync invocation, in order
  console,       \* what was written to the console
  scene,         \* per call: the scene argument
  eval,          \* one evaluation of a pure function: its arguments, then its value
  engineRef,     \* Scene3D: engineRef.current, 0 for null; an engine is the number of its effect
  effects,       \* Scene3D, per run of the effect: where createScene is, whether the cleanup ran
  disposed,      \* Scene3D: the engines that were disposed
  sceneReady     \* Scene3D: the invocations of onSceneReady, in order

loaderVars == << pc, baseUrl, urdfContent, links, joints, jidx, robotRoot, linkMap, jointMap,
                 meshPromises, nodes, meshCache, imports, console, scene >>

viewVars == << engineRef, effects, disposed, sceneReady >>

vars == << pc, baseUrl, urdfContent, links, joints, jidx, robotRoot, linkMap, jointMap,
           meshPromises, nodes, meshCache, imports, console, scene, eval,
           engineRef, effects, disposed, sceneReady >>

EmptyMap == << >>
Get(map, key) == IF key \in DOMAIN map THEN map[key] ELSE 0
Set(map, key, val) == (key :> val) @@ map

\* new BABYLON.TransformNode(name, scene): no parent
NewNode(kind, name, call) ==
  [kind |-> kind, name |-> name, call |-> call, parent |-> 0, src |-> 0, meta |-> {}]
SetParent(ns, n, p) == [ns EXCEPT ![n].parent = p]

SyncPhases == { "links", "joints", "roots", "visuals" }

\* Promise.all over meshPromises: rejected with the first rejection,
\* fulfilled when every promise is fulfilled
AllRejected(c) == \E i \in 1..Len(meshPromises[c]) : meshPromises[c][i].state = "rejected"
AllFulfilled(c) == \A i \in 1..Len(meshPromises[c]) : meshPromises[c][i].state = "fulfilled"
CanCompleteOnlyWhenAllFulfilled(c) == pc[c] = "await" /\ AllFulfilled(c)

CanComplete(c) == pc[c] = "await" /\ (AllRejected(c) \/ AllFulfilled(c))

\* a call is inside a synchronous part, or a promise reaction is due
\* Scene3D.tsx 65-73: the load that createScene awaits has settled and the
\* rest of createScene has not run yet
ReadyPending(e) == effects[e].stage = "loading" /\ pc[e] \in { "returned", "thrown" }

Busy == \E c \in Calls : pc[c] \in SyncPhases \/ CanComplete(c) \/ ReadyPending(c)

NoScene == "none"
NoEval == [fn |-> "none"]

InitLoader ==
  /\ pc = [c \in Calls |-> "idle"]
  /\ baseUrl = [c \in Calls |-> << >>]
  /\ urdfContent = [c \in Calls |-> MalformedDoc]
  /\ links = [c \in Calls |-> << >>]
  /\ joints = [c \in Calls |-> << >>]
  /\ jidx = [c \in Calls |-> 0]
  /\ robotRoot = [c \in Calls |-> 0]
  /\ linkMap = [c \in Calls |-> EmptyMap]
  /\ jointMap = [c \in Calls |-> EmptyMap]
  /\ meshPromises = [c \in Calls |-> << >>]
  /\ nodes = << >>
  /\ meshCache = EmptyMap
  /\ imports = << >>
  /\ console = {}
  /\ scene = [c \in Calls |-> NoScene]

\* no effect of Scene3D has run
InitView ==
  /\ engineRef = 0
  /\ effects = [e \in Calls |-> [stage |-> "idle", cleaned |-> FALSE, onSceneReady |-> FALSE]]
  /\ disposed = {}
  /\ sceneReady = << >>

Init == InitLoader /\ InitView /\ eval = NoEval

\* ------------------------------------------------------------- the call
\* urdfLoader.ts 198-204: the call, up to the await of fetch
LoadURDFRobot(c, b, s) ==
  /\ ~Busy
  /\ pc[c] = "idle"
  /\ \A e \in Calls : e < c => pc[e] # "idle"    \* the calls are numbered as they are made
  /\ \E k \in 1..c : k \in DOMAIN SceneNames /\ s = SceneNames[k]    \* and so are the scenes
  /\ pc' = [pc EXCEPT ![c] = "fetch"]
  /\ baseUrl' = [baseUrl EXCEPT ![c] = b]
  /\ scene' = [scene EXCEPT ![c] = s]
  /\ UNCHANGED << eval, urdfContent, links, joints, jidx, robotRoot, linkMap, jointMap,
                  meshPromises, nodes, meshCache, imports, console >>

\* a call that is not made by Scene3D
Call(c, b, s) == LoadURDFRobot(c, b, s) /\ UNCHANGED viewVars

\* urdfLoader.ts 204-205 and 275-278: the fetch of the document fails
FetchFail(c) ==
  /\ ~Busy
  /\ pc[c] = "fetch"
  /\ pc' = [pc EXCEPT ![c] = "thrown"]
  /\ console' = console \cup { [level |-> "error", text |-> "Error loading URDF", about |-> ""] }
  /\ UNCHANGED << viewVars, scene, eval, baseUrl, urdfContent, links, joints, jidx, robotRoot, linkMap, jointMap,
                  meshPromises, nodes, meshCache, imports >>

\* urdfLoader.ts 204-213 with urdfParser.ts 73-91: the document arrives and
\* is parsed; a parser error is thrown on, else robotRoot is created
FetchOk(c, d) ==
  /\ ~Busy
  /\ pc[c] = "fetch"
  /\ urdfContent' = [urdfContent EXCEPT ![c] = d]
  /\ IF ParseURDF(d).threw
       THEN /\ pc' = [pc EXCEPT ![c] = "thrown"]
            /\ console' = console \cup { [level |-> "error", text |-> "XML parsing error", about |-> ""],
                                         [level |-> "error", text |-> "Error loading URDF", about |-> ""] }
            /\ UNCHANGED << links, joints, robotRoot, nodes >>
       ELSE /\ pc' = [pc EXCEPT ![c] = "links"]
            /\ links' = [links EXCEPT ![c] = ParseURDF(d).links]
            /\ joints' = [joints EXCEPT ![c] = ParseURDF(d).joints]
            /\ console' = console \cup ParseWarnings(d)
            /\ nodes' = Append(nodes, NewNode("root", "robotRoot", c))
            /\ robotRoot' = [robotRoot EXCEPT ![c] = Len(nodes) + 1]
  /\ UNCHANGED << viewVars, scene, eval, baseUrl, jidx, linkMap, jointMap, meshPromises, meshCache, imports >>

\* -------------------------------------------------- buildRobotStructure
\* urdfLoader.ts 160-163: one node per link record; a later record of the
\* same name replaces the map entry of the earlier one
RECURSIVE CreateLinkNodes(_, _, _, _, _)
CreateLinkNodes(ls, i, ns, lm, c) ==
  IF i > Len(ls) THEN [nodes |-> ns, linkMap |-> lm]
  ELSE CreateLinkNodes(ls, i + 1, Append(ns, NewNode("link", ls[i].name, c)),
                       Set(lm, ls[i].name, Len(ns) + 1), c)

\* PhaseAfterLinks had the visuals come right after the link nodes
PhaseAfterLinksIsVisuals(js) == "visuals"

\* urdfLoader.ts 215-225: buildRobotStructure goes on to the joints, and
\* the root pass follows it
PhaseAfterLinks(js) == IF Len(js) = 0 THEN "roots" ELSE "joints"

CreateLinks(c) ==
  /\ pc[c] = "links"
  /\ LET r == CreateLinkNodes(links[c], 1, nodes, EmptyMap, c)
     IN  /\ nodes' = r.nodes
         /\ linkMap' = [linkMap EXCEPT ![c] = r.linkMap]
  /\ jidx' = [jidx EXCEPT ![c] = 1]
  /\ pc' = [pc EXCEPT ![c] = PhaseAfterLinks(joints[c])]
  /\ UNCHANGED << viewVars, scene, eval, baseUrl, urdfContent, links, joints, robotRoot, jointMap, meshPromises,
                  meshCache, imports, console >>

\* urdfLoader.ts 178-182: the joint under its parent link, the child link
\* under the joint
WireJoint(ns, jointNode, parentLink, childLink) ==
  SetParent(SetParent(ns, jointNode, parentLink), childLink, jointNode)

\* urdfLoader.ts 189-193: what a wired joint node is given besides its
\* transform
JointMetadata(joint) == IF joint.axis THEN { "jointAxis" } ELSE {}

\* urdfLoader.ts 166-193: one joint of joints.forEach
ProcessJoint(c) ==
  /\ pc[c] = "joints"
  /\ LET joint == joints[c][jidx[c]]
         jointNode == Len(nodes) + 1
         created == Append(nodes, NewNode("joint", joint.name, c))
         parentLink == Get(linkMap[c], joint.parent)
         childLink == Get(linkMap[c], joint.child)
     IN  /\ jointMap' = [jointMap EXCEPT ![c] = Set(@, joint.name, jointNode)]
         /\ IF parentLink = 0 \/ childLink = 0
              THEN /\ nodes' = created
                   /\ console' = console \cup
                        { [level |-> "warn", text |-> "Missing parent or child for joint", about |-> joint.name] }
              ELSE /\ nodes' = [WireJoint(created, jointNode, parentLink, childLink)
                                   EXCEPT ![jointNode].meta = JointMetadata(joint)]
                   /\ console' = console
  /\ jidx' = [jidx EXCEPT ![c] = @ + 1]
  /\ pc' = [pc EXCEPT ![c] = IF jidx[c] = Len(joints[c]) THEN "roots" ELSE "joints"]
  /\ UNCHANGED << viewVars, scene, eval, baseUrl, urdfContent, links, joints, robotRoot, linkMap, meshPromises,
                  meshCache, imports >>

\* ------------------------------------------------------- root-link pass
\* urdfLoader.ts 218
ChildLinks(js) == { js[i].child : i \in 1..Len(js) }

\* RootLinks had it counted only the joints that buildRobotStructure wired
RootLinksOfWiredJoints(ls, js) ==
  LET names == { ls[i].name : i \in 1..Len(ls) }
      wired == { k \in 1..Len(js) : js[k].parent \in names /\ js[k].child \in names }
  IN  SelectSeq(ls, LAMBDA link : link.name \notin { js[k].child : k \in wired })

\* urdfLoader.ts 219
RootLinks(ls, js) == SelectSeq(ls, LAMBDA link : link.name \notin ChildLinks(js))

\* urdfLoader.ts 222-225
RootPass(c) ==
  /\ pc[c] = "roots"
  /\ LET rootLinks == RootLinks(links[c], joints[c])
         rootNodes == { Get(linkMap[c], rootLinks[i].name) : i \in 1..Len(rootLinks) } \ {0}
     IN  nodes' = [n \in DOMAIN nodes |->
                     IF n \in rootNodes THEN [nodes[n] EXCEPT !.parent = robotRoot[c]] ELSE nodes[n]]
  /\ pc' = [pc EXCEPT ![c] = "visuals"]
  /\ UNCHANGED << viewVars, scene, eval, baseUrl, urdfContent, links, joints, jidx, robotRoot, linkMap, jointMap,
                  meshPromises, meshCache, imports, console >>

\* ------------------------------------------------------ visuals, meshes
\* CacheMiss had it taken only a completed import for a hit
CacheMissUnlessFulfilled(cache, fullPath) ==
  fullPath \notin DOMAIN cache \/ cache[fullPath].state # "fulfilled"

\* urdfLoader.ts 243: a promise is truthy, so an entry is a hit in whatever
\* state its promise is
CacheMiss(cache, fullPath) == fullPath \notin DOMAIN cache

\* AttachClone had it parented the template itself
AttachTemplate(ns, template, visualNode, name, c) ==
  SetParent(ns, template, visualNode)

\* urdfLoader.ts 252-253: a clone of the template, parented under the
\* visual node
AttachClone(ns, template, visualNode, name, c) ==
  SetParent(Append(ns, [NewNode("mesh", name, c) EXCEPT !.src = template]), Len(ns) + 1, visualNode)

\* urdfLoader.ts 251-266: the reaction of one visual to the settling of its
\* cache entry; a rejection of the entry rejects the loadPromise
RunReaction(st, cb, entry) ==
  IF entry.state = "fulfilled"
    THEN [nodes |-> AttachClone(st.nodes, entry.mesh, cb.visualNode, cb.linkName, cb.call),
          promises |-> [st.promises EXCEPT ![cb.call][cb.idx].state = "fulfilled"]]
    ELSE [nodes |-> st.nodes,
          promises |-> [st.promises EXCEPT ![cb.call][cb.idx].state = "rejected"]]

\* the reactions run in the order in which they were registered
RECURSIVE RunReactions(_, _, _, _)
RunReactions(st, cbs, i, cache) ==
  IF i > Len(cbs) THEN st
  ELSE RunReactions(RunReaction(st, cbs[i], cache[cbs[i].path]), cbs, i + 1, cache)

\* urdfLoader.ts 234-268: one visual of link.visuals.forEach
IssueVisual(st, link, visual, c) ==
  LET linkNode == Get(linkMap[c], link.name)
      visualNode == Len(st.nodes) + 1
      fullPath == FullPath(baseUrl[c], visual.filename)
      miss == CacheMiss(st.cache, fullPath)
      cache1 == IF miss
                  THEN Set(st.cache, fullPath, [state |-> "pending", mesh |-> 0, by |-> c, reactions |-> << >>])
                  ELSE st.cache
      cb == [call |-> c, idx |-> Len(st.promises) + 1, visualNode |-> visualNode,
             linkName |-> link.name, path |-> fullPath]
      settled == cache1[fullPath].state # "pending"
  IN  [nodes |-> SetParent(Append(st.nodes, NewNode("visual", link.name, c)), visualNode, linkNode),
       cache |-> IF settled THEN cache1
                 ELSE [cache1 EXCEPT ![fullPath].reactions = Append(@, cb)],
       imports |-> IF miss
                     THEN Append(st.imports, [rootUrl |-> RootUrl(fullPath),
                                              sceneFilename |-> SceneFilename(fullPath), call |-> c])
                     ELSE st.imports,
       promises |-> Append(st.promises, [path |-> fullPath, visualNode |-> visualNode, state |-> "pending"]),
       ready |-> IF settled THEN Append(st.ready, cb) ELSE st.ready]

\* VisualAt had it gone through the visuals from the last to the first
VisualAtFromTheEnd(vs, v) == vs[Len(vs) + 1 - v]

\* urdfLoader.ts 231: link.visuals.forEach visits the visuals in their order
VisualAt(vs, v) == vs[v]

\* urdfLoader.ts 230-270: links.forEach, link.visuals.forEach
RECURSIVE IssueAll(_, _, _, _, _)
IssueAll(st, ls, i, v, c) ==
  IF i > Len(ls) THEN st
  ELSE IF v > Len(ls[i].visuals) THEN IssueAll(st, ls, i + 1, 1, c)
  ELSE IssueAll(IssueVisual(st, ls[i], VisualAt(ls[i].visuals, v), c), ls, i, v + 1, c)

\* urdfLoader.ts 228-272: every visual node is created and every load is
\* requested; the reactions to entries that are settled already run right
\* after, before any other task
IssueVisuals(c) ==
  /\ pc[c] = "visuals"
  /\ LET st == IssueAll([nodes |-> nodes, cache |-> meshCache, imports |-> imports,
                         promises |-> << >>, ready |-> << >>], links[c], 1, 1, c)
         after == RunReactions([nodes |-> st.nodes,
                                promises |-> [meshPromises EXCEPT ![c] = st.promises]],
                               st.ready, 1, st.cache)
     IN  /\ nodes' = after.nodes
         /\ meshPromises' = after.promises
         /\ meshCache' = st.cache
         /\ imports' = st.imports
  /\ pc' = [pc EXCEPT ![c] = "await"]
  /\ UNCHANGED << viewVars, scene, eval, baseUrl, urdfContent, links, joints, jidx, robotRoot, linkMap, jointMap, console >>

\* SceneLoader.ImportMeshAsync of urdfLoader.ts 248 is fulfilled: the
\* imported mesh is in the scene, and the reactions of 251-266 run
ImportOk(p) ==
  /\ ~Busy
  /\ p \in DOMAIN meshCache
  /\ meshCache[p].state = "pending"
  /\ LET template == Len(nodes) + 1
         cache1 == [meshCache EXCEPT ![p].state = "fulfilled", ![p].mesh = template]
         after == RunReactions([nodes |-> Append(nodes, NewNode("template", "", meshCache[p].by)),
                                promises |-> meshPromises],
                               meshCache[p].reactions, 1, cache1)
     IN  /\ nodes' = after.nodes
         /\ meshPromises' = after.promises
         /\ meshCache' = [cache1 EXCEPT ![p].reactions = << >>]
  /\ UNCHANGED << viewVars, scene, eval, pc, baseUrl, urdfContent, links, joints, jidx, robotRoot, linkMap, jointMap,
                  imports, console >>

\* SceneLoader.ImportMeshAsync of urdfLoader.ts 248 is rejected
ImportFail(p) ==
  /\ ~Busy
  /\ p \in DOMAIN meshCache
  /\ meshCache[p].state = "pending"
  /\ LET cache1 == [meshCache EXCEPT ![p].state = "rejected"]
         after == RunReactions([nodes |-> nodes, promises |-> meshPromises],
                               meshCache[p].reactions, 1, cache1)
     IN  /\ nodes' = after.nodes
         /\ meshPromises' = after.promises
         /\ meshCache' = [cache1 EXCEPT ![p].reactions = << >>]
  /\ UNCHANGED << viewVars, scene, eval, pc, baseUrl, urdfContent, links, joints, jidx, robotRoot, linkMap, jointMap,
                  imports, console >>

\* urdfLoader.ts 272-278: the await of Promise.all ends; loadURDFRobot
\* returns robotRoot, or logs and rethrows the first rejection
Complete(c) ==
  /\ CanComplete(c)
  /\ IF AllRejected(c)
       THEN /\ pc' = [pc EXCEPT ![c] = "thrown"]
            /\ console' = console \cup { [level |-> "error", text |-> "Error loading URDF", about |-> ""] }
       ELSE /\ pc' = [pc EXCEPT ![c] = "returned"]
            /\ console' = console
  /\ UNCHANGED << viewVars, scene, eval, baseUrl, urdfContent, links, joints, jidx, robotRoot, linkMap, jointMap,
                  meshPromises, nodes, meshCache, imports >>

\* -------------------------------------------------------- specifications
\* the loader with the documents for the mesh loading, two calls
Next ==
  \/ \E c \in Calls, b \in BaseUrls, s \in Scenes : Call(c, b, s)
  \/ \E c \in Calls : FetchFail(c)
  \/ \E c \in Calls : pc[c] = "fetch" /\ \E d \in MeshDocs : FetchOk(c, d)
  \/ \E c \in Calls : CreateLinks(c)
  \/ \E c \in Calls : ProcessJoint(c)
  \/ \E c \in Calls : RootPass(c)
  \/ \E c \in Calls : IssueVisuals(c)
  \/ \E p \in DOMAIN meshCache : ImportOk(p)
  \/ \E p \in DOMAIN meshCache : ImportFail(p)
  \/ \E c \in Calls : Complete(c)

Spec == Init /\ [][Next]_vars

\* the loader with the documents for the tree, one call
NextTree ==
  \/ \E c \in TreeCalls, b \in BaseUrls, s \in Scenes : Call(c, b, s)
  \/ \E c \in TreeCalls : pc[c] = "fetch" /\ \E d \in TreeDocs : FetchOk(c, d)
  \/ \E c \in TreeCalls : CreateLinks(c)
  \/ \E c \in TreeCalls : ProcessJoint(c)
  \/ \E c \in TreeCalls : RootPass(c)
  \/ \E c \in TreeCalls : IssueVisuals(c)
  \/ \E c \in TreeCalls : Complete(c)

SpecTree == Init /\ [][NextTree]_vars

TypeOK ==
  /\ pc \in [Calls -> { "idle", "fetch", "links", "joints", "roots", "visuals", "await", "returned", "thrown" }]
  /\ scene \in [Calls -> Scenes \cup { NoScene }]
  /\ \A n \in DOMAIN nodes : nodes[n].parent \in 0..Len(nodes)

\* ---------------------------------------------------- reading the tree
Completed(c) == pc[c] \in { "returned", "thrown" }
AfterJoints(c) == pc[c] \in { "roots", "visuals", "await", "returned", "thrown" } /\ robotRoot[c] # 0
AfterRootPass(c) == pc[c] \in { "visuals", "await", "returned", "thrown" } /\ robotRoot[c] # 0

NodesOf(c, kinds) == { n \in DOMAIN nodes : nodes[n].call = c /\ nodes[n].kind \in kinds }
LinkNodesNamed(c, name) == { n \in NodesOf(c, {"link"}) : nodes[n].name = name }
JointNodeNamed(c, name) == CHOOSE n \in NodesOf(c, {"joint"}) : nodes[n].name = name
LinkNames(c) == { links[c][i].name : i \in 1..Len(links[c]) }

\* the k-th ancestor of node n by parent references, 0 beyond the top
RECURSIVE Up(_, _)
Up(n, k) == IF k = 0 \/ n = 0 THEN n ELSE Up(nodes[n].parent, k - 1)
ReachableFrom(top, n) == \E k \in 0..Len(nodes) : Up(n, k) = top
OnCycle(n) == \E k \in 1..Len(nodes) : Up(n, k) = n

\* joint i of call c was skipped by buildRobotStructure (173-176)
Skipped(c, i) == joints[c][i].parent \notin LinkNames(c) \/ joints[c][i].child \notin LinkNames(c)

\* ------------------------------------------------------------------- C3
\* C3 as stated: a link that is the child of some joint is never put under
\* robotRoot by the root-link pass, and the child link of a joint that was
\* skipped for its missing parent link ends with no parent at all.
C3_ChildOfSkippedJointHasNoParent ==
  \A c \in Calls : AfterRootPass(c) =>
    \A i \in 1..Len(joints[c]) : \A n \in LinkNodesNamed(c, joints[c][i].child) :
      /\ nodes[n].parent # robotRoot[c]
      /\ joints[c][i].parent \notin LinkNames(c) => nodes[n].parent = 0

\* C3 amended: a link that is the child of some joint is never put under
\* robotRoot by the root-link pass; the child link of a joint that was
\* skipped for its missing parent link ends with no parent at all unless
\* another joint, whose parent and child links both exist, names it as its
\* child too.
C3_ChildOfJointIsNoRoot ==
  \A c \in Calls : AfterRootPass(c) =>
    \A i \in 1..Len(joints[c]) : \A n \in LinkNodesNamed(c, joints[c][i].child) :
      /\ nodes[n].parent # robotRoot[c]
      /\ ( /\ joints[c][i].parent \notin LinkNames(c)
           /\ \A k \in 1..Len(joints[c]) : joints[c][k].child = joints[c][i].child => Skipped(c, k) )
         => nodes[n].parent = 0

\* a load has passed the root-link pass with a link under robotRoot and
\* another link, the child of a joint with a missing parent link, orphaned
C3_Witness ==
  \E c \in Calls : /\ pc[c] = "returned"
    /\ \E i \in 1..Len(joints[c]) :
         /\ joints[c][i].parent \notin LinkNames(c)
         /\ \E n \in LinkNodesNamed(c, joints[c][i].child) : nodes[n].parent = 0 /\ linkMap[c][nodes[n].name] = n
    /\ \E n \in NodesOf(c, {"link"}) : nodes[n].parent = robotRoot[c]

\* ------------------------------------------------------------------- C4
\* C4: when the load completes, robotRoot is the only root, link or joint
\* node of the load without a parent, and every link node and every joint
\* node of the load is reachable from robotRoot.
C4_SingleRootAllReachable ==
  \A c \in Calls : pc[c] = "returned" =>
    /\ \A n \in NodesOf(c, {"root", "link", "joint"}) : nodes[n].parent = 0 <=> n = robotRoot[c]
    /\ \A n \in NodesOf(c, {"link", "joint"}) : ReachableFrom(robotRoot[c], n)

\* ------------------------------------------------------------------- C5
\* C5: of two joints with existing parent and child links that name the
\* same child link, the earlier one keeps the child link, the node of the
\* later one is not wired into the tree, and a DuplicateParent is reported
\* for the child link.
C5_FirstJointKeepsChild ==
  \A c \in Calls : AfterJoints(c) =>
    \A i \in 1..Len(joints[c]) : \A k \in 1..Len(joints[c]) :
      ( /\ i < k
        /\ joints[c][i].child = joints[c][k].child
        /\ ~Skipped(c, i) /\ ~Skipped(c, k) )
      => /\ nodes[linkMap[c][joints[c][i].child]].parent = JointNodeNamed(c, joints[c][i].name)
         /\ nodes[JointNodeNamed(c, joints[c][k].name)].parent = 0
         /\ \E w \in console : w.text = "DuplicateParent" /\ w.about = joints[c][i].child

\* ------------------------------------------------------------------- C6
\* C6: after buildRobotStructure and the root-link pass, the parent
\* relation over the nodes contains no cycle (every node has one parent
\* reference, so at most one parent).
C6_NoCycle ==
  \A c \in Calls : AfterRootPass(c) =>
    \A n \in NodesOf(c, {"root", "link", "joint"}) : ~OnCycle(n)

\* ------------------------------------------------- reading the meshes
ImportsOf(path) ==
  { k \in 1..Len(imports) : ImportLocation(imports[k].rootUrl, imports[k].sceneFilename) = path }
PromisesOn(c, path) == { i \in 1..Len(meshPromises[c]) : meshPromises[c][i].path = path }
ChildrenOf(n, kinds) == { m \in DOMAIN nodes : nodes[m].parent = n /\ nodes[m].kind \in kinds }
RequestedPaths == UNION { { meshPromises[c][i].path : i \in 1..Len(meshPromises[c]) } : c \in Calls }

\* ------------------------------------------------------------------- C1
\* C1: for every resolved path some visual has requested - in one link,
\* in several links or in several calls - ImportMeshAsync has been invoked
\* exactly once, and every visual of that path follows the one cache entry:
\* its promise is settled as the entry is, and its mesh is a clone of the
\* entry's mesh.
C1_OneImportPerPath ==
  \A path \in RequestedPaths :
    /\ Cardinality(ImportsOf(path)) = 1
    /\ path \in DOMAIN meshCache
    /\ \A c \in Calls : \A i \in PromisesOn(c, path) :
         /\ meshPromises[c][i].state = meshCache[path].state
         /\ \A m \in ChildrenOf(meshPromises[c][i].visualNode, {"mesh", "template"}) :
              nodes[m].src = meshCache[path].mesh

\* one path was requested by two visuals of the first call while the import
\* was in flight and by a visual of the second call after it had completed,
\* and all three have their mesh
C1_Witness ==
  \E path \in DOMAIN meshCache :
    /\ meshCache[path].state = "fulfilled"
    /\ Cardinality(PromisesOn(1, path)) >= 2
    /\ Cardinality(PromisesOn(2, path)) >= 1
    /\ \A i \in PromisesOn(2, path) : meshPromises[2][i].visualNode > meshCache[path].mesh
    /\ \A c \in Calls : \A i \in PromisesOn(c, path) :
         ChildrenOf(meshPromises[c][i].visualNode, {"mesh"}) # {}

\* ------------------------------------------------------------------- C2
\* C2: a load in which the mesh load of a visual has failed still completes
\* by returning robotRoot, and every visual of it whose own load succeeded
\* has its mesh under its visual node.
C2_FailedVisualDoesNotFailLoad ==
  \A c \in Calls : (Completed(c) /\ AllRejected(c)) =>
    /\ pc[c] = "returned"
    /\ \A i \in 1..Len(meshPromises[c]) :
         meshCache[meshPromises[c][i].path].state = "fulfilled"
           => ChildrenOf(meshPromises[c][i].visualNode, {"mesh"}) # {}

\* ------------------------------------------------------------------- C7
\* C7: the template mesh of a cache entry is never under a visual node, and
\* every visual whose load succeeded has exactly one mesh under its visual
\* node, a clone of the template that is under no other node.
C7_FreshClonePerVisual ==
  /\ \A n \in DOMAIN nodes : nodes[n].kind = "template" => nodes[n].parent = 0
  /\ \A c \in Calls : \A i \in 1..Len(meshPromises[c]) :
       LET under == ChildrenOf(meshPromises[c][i].visualNode, {"mesh", "template"})
       IN  /\ meshPromises[c][i].state = "fulfilled" => Cardinality(under) = 1
           /\ \A m \in under :
                /\ nodes[m].kind = "mesh"
                /\ nodes[m].src = meshCache[meshPromises[c][i].path].mesh
                /\ nodes[m].src # m

\* two visuals of one path have their meshes: two clones of one template
C7_Witness ==
  \E c \in Calls : \E i \in 1..Len(meshPromises[c]) : \E k \in 1..Len(meshPromises[c]) :
    /\ i # k
    /\ meshPromises[c][i].path = meshPromises[c][k].path
    /\ \E m \in ChildrenOf(meshPromises[c][i].visualNode, {"mesh"}) :
       \E o \in ChildrenOf(meshPromises[c][k].visualNode, {"mesh"}) :
          m # o /\ nodes[m].src = nodes[o].src

\* ------------------------------------------------------------------- C8
\* C8: when the load completes, by returning or by throwing, none of the
\* mesh loads it requested is still in flight.
C8_NoLoadInFlightAtCompletion ==
  \A c \in Calls : Completed(c) =>
    \A k \in 1..Len(imports) : imports[k].call = c =>
      meshCache[ImportLocation(imports[k].rootUrl, imports[k].sceneFilename)].state # "pending"

\* ------------------------------------------------------------------- C9
\* C9: when the load has completed and the mesh load of a link's only
\* visual has failed, the link's node exists and has no visual node under it.
C9_FailedVisualLeavesNoVisualNode ==
  \A c \in Calls : Completed(c) =>
    \A l \in 1..Len(links[c]) : \A i \in 1..Len(meshPromises[c]) :
      ( /\ Len(links[c][l].visuals) = 1
        /\ nodes[meshPromises[c][i].visualNode].name = links[c][l].name
        /\ meshPromises[c][i].state = "rejected" )
      => /\ Get(linkMap[c], links[c][l].name) # 0
         /\ ChildrenOf(Get(linkMap[c], links[c][l].name), {"visual"}) = {}

\* ------------------------------------------------------------------ C10
\* urdfLoader.ts 202 and 273: what the caller is handed is the robotRoot node
Result(c) == [value |-> robotRoot[c]]
ResultWarnings(c) == IF "warnings" \in DOMAIN Result(c) THEN Result(c).warnings ELSE {}

\* the joints and visuals of the document of call c that are not in the
\* tree: joints without a parent or child element, joints with a missing
\* parent or child link, joints on a child link that an earlier joint had
\* parented, visuals without a filename, visuals whose mesh load failed
LeftOut(c) ==
  LET d == urdfContent[c]
  IN  { <<"joint", d.joints[i].name>> :
          i \in { k \in 1..Len(d.joints) : ~(d.joints[k].parentEl /\ d.joints[k].childEl) } }
      \cup { <<"joint", joints[c][i].name>> : i \in { k \in 1..Len(joints[c]) : Skipped(c, k) } }
      \cup { <<"joint", joints[c][i].name>> :
               i \in { k \in 1..Len(joints[c]) :
                         /\ ~Skipped(c, k)
                         /\ \E e \in 1..(k - 1) : ~Skipped(c, e) /\ joints[c][e].child = joints[c][k].child } }
      \cup UNION { { <<"visual", d.links[l].name, v>> :
                       v \in { x \in 1..Len(d.links[l].visuals) :
                                 d.links[l].visuals[x].mesh /\ d.links[l].visuals[x].filename = << >> } } :
                     l \in 1..Len(d.links) }
      \cup { <<"load", nodes[meshPromises[c][i].visualNode].name, i>> :
               i \in { k \in 1..Len(meshPromises[c]) : meshPromises[c][k].state = "rejected" } }

\* C10: when a load of a well-formed document has completed, every joint
\* and every visual that is left out of the tree has a warning entry in the
\* result handed to the caller.
C10_EveryOmissionIsInResultWarnings ==
  \A c \in Calls : (Completed(c) /\ robotRoot[c] # 0) =>
    \A e \in LeftOut(c) :
      /\ pc[c] = "returned"
      /\ \E w \in ResultWarnings(c) : w.about = e

\* the kinds of node of the tree, and of what hangs on it
TreeKinds == { "root", "link", "joint" }
VisualKinds == { "visual", "mesh" }

\* C15: while the link nodes are created, the joints processed and the
\* root links parented under robotRoot, the call has no visual node and no
\* mesh instance: when it has one, every link has its node, every joint has
\* been processed, every root link is under robotRoot, and no node of a
\* link or joint was created after it.
C15_NoVisualBeforeTheTreeIsBuilt ==
  \A v \in DOMAIN nodes :
    nodes[v].kind \in VisualKinds =>
      LET c == nodes[v].call
          rootLinks == RootLinks(links[c], joints[c])
      IN  /\ pc[c] \in { "await", "returned", "thrown" }
          /\ \A i \in 1..Len(links[c]) : Get(linkMap[c], links[c][i].name) # 0
          /\ jidx[c] > Len(joints[c])
          /\ \A i \in 1..Len(joints[c]) : Get(jointMap[c], joints[c][i].name) # 0
          /\ \A i \in 1..Len(rootLinks) :
               nodes[Get(linkMap[c], rootLinks[i].name)].parent = robotRoot[c]
          /\ \A n \in (v + 1)..Len(nodes) : ~(nodes[n].call = c /\ nodes[n].kind \in TreeKinds)

\* a call has the visual of a link that a joint has put under its parent link
C15_Witness ==
  \E c \in Calls : \E v \in NodesOf(c, { "visual" }) :
    /\ nodes[v].parent # 0
    /\ nodes[nodes[v].parent].kind = "link"
    /\ nodes[nodes[v].parent].parent # 0
    /\ nodes[nodes[nodes[v].parent].parent].kind = "joint"
    /\ \E r \in NodesOf(c, { "link" }) : nodes[r].parent = robotRoot[c]

\* the loads of call c whose visual node is under the node of link l, in
\* the order of meshPromises
LoadsUnder(c, l) ==
  SelectSeq(meshPromises[c],
            LAMBDA p : nodes[p.visualNode].parent = Get(linkMap[c], links[c][l].name))

\* C16: once the loads of a call are requested, the visual nodes under a
\* link node are the visuals of the link in document order, whichever
\* loads have completed: the visual nodes were parented in the order of
\* meshPromises, and under every link node they are, in that order, the
\* visuals of the link.
C16_VisualsInDocumentOrder ==
  \A c \in Calls :
    (pc[c] \in { "await", "returned", "thrown" } /\ robotRoot[c] # 0) =>
      /\ \A i \in 1..Len(meshPromises[c]) : \A j \in (i + 1)..Len(meshPromises[c]) :
           meshPromises[c][i].visualNode < meshPromises[c][j].visualNode
      /\ \A l \in 1..Len(links[c]) :
           /\ Len(LoadsUnder(c, l)) = Len(links[c][l].visuals)
           /\ \A k \in 1..Len(LoadsUnder(c, l)) :
                k <= Len(links[c][l].visuals) =>
                  LoadsUnder(c, l)[k].path = FullPath(baseUrl[c], links[c][l].visuals[k].filename)

\* the load of the second visual of a link has completed and the load of
\* the first has not
C16_Witness ==
  \E c \in Calls : \E l \in 1..Len(links[c]) :
    /\ pc[c] = "await"
    /\ Len(links[c][l].visuals) = 2
    /\ Len(LoadsUnder(c, l)) = 2
    /\ LoadsUnder(c, l)[1].state = "pending"
    /\ LoadsUnder(c, l)[2].state = "fulfilled"
    /\ LoadsUnder(c, l)[1].path # LoadsUnder(c, l)[2].path

\* the scene a node is in: a node is made in the scene of its call, an
\* imported mesh is in the scene handed to the import, and a clone is in the
\* scene of the mesh it was cloned from
SceneOf(n) ==
  IF nodes[n].kind = "mesh" THEN scene[nodes[nodes[n].src].call] ELSE scene[nodes[n].call]

\* C19: the mesh instance under a visual node of a call is cloned from a
\* template that was imported into the scene of that call, never from the
\* cache entry that a call for another scene has made.
C19_ClonesComeFromTheSceneOfTheLoad ==
  \A m \in DOMAIN nodes :
    nodes[m].kind = "mesh" => SceneOf(m) = scene[nodes[m].call]

\* C20: a meshCache entry is never removed and never replaced: it keeps the
\* import it was made for, and once settled it keeps its outcome.  So a
\* path whose first load failed was imported once, and every request for
\* it, of the same call or of a later one, has failed too.
C20_CacheEntriesAreKept ==
  /\ [][\A p \in DOMAIN meshCache :
          /\ p \in DOMAIN meshCache'
          /\ meshCache'[p].by = meshCache[p].by
          /\ Cardinality(ImportsOf(p))' = Cardinality(ImportsOf(p))
          /\ meshCache[p].state # "pending" =>
               (meshCache'[p].state = meshCache[p].state /\ meshCache'[p].mesh = meshCache[p].mesh)]_vars
  /\ [](\A p \in DOMAIN meshCache :
          meshCache[p].state = "rejected" =>
            /\ Cardinality(ImportsOf(p)) = 1
            /\ \A c \in Calls : \A i \in PromisesOn(c, p) : meshPromises[c][i].state = "rejected")

\* a later call has asked for a path whose load had failed before, and has
\* got the failure
C20_Witness ==
  \E p \in DOMAIN meshCache : \E c \in Calls :
    /\ meshCache[p].state = "rejected"
    /\ meshCache[p].by < c
    /\ PromisesOn(c, p) # {}
    /\ PromisesOn(meshCache[p].by, p) # {}
    /\ Completed(meshCache[p].by)

\* C21: a call whose fetch failed, or whose document could not be parsed,
\* has thrown to its caller and has made nothing: no robotRoot, no node of
\* any kind, no meshCache entry and no import.
C21_FailedFetchOrParseCreatesNothing ==
  \A c \in Calls :
    (pc[c] \notin { "idle", "fetch" } /\ ~urdfContent[c].wellFormed) =>
      /\ pc[c] = "thrown"
      /\ robotRoot[c] = 0
      /\ linkMap[c] = EmptyMap /\ jointMap[c] = EmptyMap /\ meshPromises[c] = << >>
      /\ \A n \in DOMAIN nodes : nodes[n].call # c
      /\ \A p \in DOMAIN meshCache : meshCache[p].by # c
      /\ \A k \in 1..Len(imports) : imports[k].call # c

\* the parse of one call has failed while another call has built its tree
\* and asked for its meshes
C21_Witness ==
  \E c \in Calls : \E e \in Calls :
    /\ pc[c] = "thrown" /\ robotRoot[c] = 0
    /\ [level |-> "error", text |-> "XML parsing error", about |-> ""] \in console
    /\ robotRoot[e] # 0
    /\ \E p \in DOMAIN meshCache : meshCache[p].by = e

\* the joint element of the document of call c that joint i was parsed from
JointElementOf(c, i) ==
  LET els == RobotJointEls(urdfContent[c])
  IN  els[CHOOSE k \in 1..Len(els) : els[k].name = joints[c][i].name]

\* the name under which a declared field is kept on the joint node
MetadataKey(field) ==
  IF field = "type" THEN "jointType" ELSE IF field = "axis" THEN "jointAxis" ELSE "jointLimits"

\* C22: the node of every joint that buildRobotStructure has wired carries
\* the type, the axis and the limits that the joint declares in the
\* document.
C22_WiredJointCarriesItsMetadata ==
  \A c \in Calls : \A i \in 1..Len(joints[c]) :
    (i < jidx[c] /\ ~Skipped(c, i)) =>
      \A field \in JointElementOf(c, i).declares :
        MetadataKey(field) \in nodes[Get(jointMap[c], joints[c][i].name)].meta

\* ------------------------------------------------------------ liveness
\* Documents for the completion of a call: two links with a visual of the
\* same mesh; one link with visuals of two meshes; two links, the second
\* with a visual, and a joint between them; text that is not well-formed.
LiveDocs ==
  { Doc(<< LinkEl(MeshNames[1], << VisualEl(<<"m">>) >>), LinkEl(MeshNames[2], << VisualEl(<<"m">>) >>) >>, << >>),
    Doc(<< LinkEl(MeshNames[1], << VisualEl(<<"m">>), VisualEl(<<"n">>) >>) >>, << >>),
    Doc(<< LinkEl(MeshNames[1], << >>), LinkEl(MeshNames[2], << VisualEl(<<"m">>) >>) >>,
        << JointEl(JointNames[1], MeshNames[1], MeshNames[2]) >>),
    MalformedDoc }

\* The fetch of a document and the import of a mesh settle, one way or the
\* other; the synchronous steps of a call and the reactions to settled
\* promises are run by the event loop.
Settle ==
  \/ \E c \in Calls : FetchFail(c)
  \/ \E c \in Calls : pc[c] = "fetch" /\ \E d \in LiveDocs : FetchOk(c, d)
  \/ \E p \in DOMAIN meshCache : ImportOk(p)
  \/ \E p \in DOMAIN meshCache : ImportFail(p)

Step ==
  \/ \E c \in Calls : CreateLinks(c)
  \/ \E c \in Calls : ProcessJoint(c)
  \/ \E c \in Calls : RootPass(c)
  \/ \E c \in Calls : IssueVisuals(c)
  \/ \E c \in Calls : Complete(c)

NextLive ==
  \/ \E c \in Calls, b \in BaseUrls, s \in Scenes : Call(c, b, s)
  \/ Settle
  \/ Step

SpecLive == Init /\ [][NextLive]_vars /\ WF_vars(Settle) /\ WF_vars(Step)

\* the visual nodes under the node of link l of call c have one mesh
\* instance each, and nothing else
OneMeshPerVisual(c, l) ==
  \A k \in 1..Len(LoadsUnder(c, l)) :
    \E m \in DOMAIN nodes :
      /\ nodes[m].parent = LoadsUnder(c, l)[k].visualNode /\ nodes[m].kind = "mesh"
      /\ \A n \in DOMAIN nodes : nodes[n].parent = LoadsUnder(c, l)[k].visualNode => n = m

\* C24: when the fetch and the mesh loads settle, a call that was made
\* completes; it throws only when the fetch, the parse or a mesh load has
\* failed, and when it returns, it returns robotRoot, and every visual of
\* every link has one visual node under the node of its link with one mesh
\* instance under it.
C24_LoadCompletes ==
  /\ \A c \in Calls : (pc[c] = "fetch") ~> Completed(c)
  /\ [](\A c \in Calls :
          /\ pc[c] = "thrown" => (robotRoot[c] = 0 \/ AllRejected(c))
          /\ pc[c] = "returned" =>
               /\ Result(c).value = robotRoot[c] /\ robotRoot[c] # 0
               /\ \A l \in 1..Len(links[c]) :
                    /\ Len(LoadsUnder(c, l)) = Len(links[c][l].visuals)
                    /\ \A j, k \in 1..Len(LoadsUnder(c, l)) :
                         LoadsUnder(c, l)[j].visualNode = LoadsUnder(c, l)[k].visualNode => j = k
                    /\ \A v \in DOMAIN nodes :
                         nodes[v].parent = Get(linkMap[c], links[c][l].name) /\ nodes[v].kind = "visual"
                           => \E k \in 1..Len(LoadsUnder(c, l)) : LoadsUnder(c, l)[k].visualNode = v
                    /\ OneMeshPerVisual(c, l))

\* a call has returned a robot of two links with a visual each, both for
\* the same mesh
C24_Witness ==
  \E c \in Calls :
    /\ pc[c] = "returned"
    /\ Len(links[c]) = 2
    /\ \A l \in 1..Len(links[c]) : Len(links[c][l].visuals) = 1 /\ OneMeshPerVisual(c, l)
    /\ Len(meshPromises[c]) = 2
    /\ meshPromises[c][1].path = meshPromises[c][2].path

\* ============================================================ Scene3D
\* Scene3D.tsx 15-78: a run of the effect. The engine is created and kept in
\* engineRef, createScene creates the scene and calls loadURDFRobot, which
\* runs up to the await of its fetch. A run of the effect is numbered as its
\* call of loadURDFRobot; its engine and its scene are its own. The cleanup
\* of the run before it has run (the effect runs again, or the component is
\* mounted again, after the cleanup).
EffectRun(e, b, cb) ==
  /\ effects[e].stage = "idle"
  /\ \A f \in Calls : f < e => effects[f].cleaned
  /\ LoadURDFRobot(e, b, SceneNames[e])
  /\ engineRef' = e
  /\ effects' = [effects EXCEPT ![e] = [stage |-> "loading", cleaned |-> FALSE, onSceneReady |-> cb]]
  /\ UNCHANGED << disposed, sceneReady >>

\* Scene3D.tsx 94-97: the cleanup of the effect, on unmount or before the
\* effect runs again: engineRef.current?.dispose()
Cleanup(e) ==
  /\ ~Busy
  /\ effects[e].stage # "idle"
  /\ ~effects[e].cleaned
  /\ effects' = [effects EXCEPT ![e].cleaned = TRUE]
  /\ disposed' = IF engineRef = 0 THEN disposed ELSE disposed \cup { engineRef }
  /\ UNCHANGED << loaderVars, eval, engineRef, sceneReady >>

\* Scene3D.tsx 65-73: the rest of createScene, after the await: a failure of
\* the load is logged and swallowed, and onSceneReady, when it was given, is
\* invoked with the scene
SceneReady(e) ==
  /\ ReadyPending(e)
  /\ effects' = [effects EXCEPT ![e].stage = "ready"]
  /\ console' = IF pc[e] = "thrown"
                  THEN console \cup { [level |-> "error", text |-> "Error loading URDF:", about |-> ""] }
                  ELSE console
  /\ sceneReady' = IF effects[e].onSceneReady
                     THEN Append(sceneReady, [scene |-> scene[e], engine |-> e,
                                              engineDisposed |-> e \in disposed])
                     ELSE sceneReady
  /\ UNCHANGED << pc, baseUrl, urdfContent, links, joints, jidx, robotRoot, linkMap, jointMap,
                  meshPromises, nodes, meshCache, imports, scene, eval, engineRef, disposed >>

NextScene ==
  \/ \E e \in Calls, b \in BaseUrls, cb \in BOOLEAN : EffectRun(e, b, cb)
  \/ \E e \in Calls : Cleanup(e)
  \/ \E e \in Calls : SceneReady(e)
  \/ Settle
  \/ Step

SpecScene == Init /\ [][NextScene]_vars

\* C25: onSceneReady is never invoked with the scene of an engine that the
\* cleanup of the effect has already disposed.
C25_NoSceneReadyAfterDispose ==
  \A i \in 1..Len(sceneReady) : ~sceneReady[i].engineDisposed

\* ====================================================== path resolution
\* ------------------------------------------------- more string helpers
StartsWith(s, pre) == Len(s) >= Len(pre) /\ Sub(s, 1, Len(pre)) = pre
EndsWith(s, suf) == Len(s) >= Len(suf) /\ Sub(s, Len(s) - Len(suf) + 1, Len(s)) = suf

\* s.split('/'): the segments between the separators, empty ones included
RECURSIVE Split(_)
Split(s) ==
  LET i == IndexOf(s, <<"/">>)
  IN  IF i = 0 THEN << s >>
      ELSE << Sub(s, 1, i - 1) >> \o Split(Sub(s, i + 1, Len(s)))

\* segs.join('/')
RECURSIVE Join(_)
Join(segs) ==
  IF Len(segs) = 0 THEN << >>
  ELSE IF Len(segs) = 1 THEN segs[1]
  ELSE segs[1] \o <<"/">> \o Join(Tail(segs))

\* s.replace(/\/+/g, '/'): every run of separators becomes one separator
RECURSIVE CollapseSeparators(_)
CollapseSeparators(s) ==
  IF Len(s) <= 1 THEN s
  ELSE IF s[1] = "/" /\ s[2] = "/" THEN CollapseSeparators(Tail(s))
  ELSE << s[1] >> \o CollapseSeparators(Tail(s))

PackageScheme == <<"p", "a", "c", "k", "a", "g", "e", ":", "/", "/">>
HttpPrefix == <<"h", "t", "t", "p">>
SchemeMarker == <<":", "/", "/">>

\* BabylonURDFLoader.ts 256-261: the package rule applies when the mapping
\* has a non-empty directory for the first segment after package://
PackagePrefix(path) == Split(Sub(path, Len(PackageScheme) + 1, Len(path)))[1]
PackageRest(path) == Tail(Split(Sub(path, Len(PackageScheme) + 1, Len(path))))
PackagePath(path, packages) ==
  IF PackagePrefix(path) \in DOMAIN packages THEN packages[PackagePrefix(path)] ELSE << >>

\* BabylonURDFLoader.ts 264-268: workingPath without one trailing separator,
\* then without its last segment
ParentPath(workingPath) ==
  LET basePath == IF EndsWith(workingPath, <<"/">>)
                    THEN Sub(workingPath, 1, Len(workingPath) - 1) ELSE workingPath
      segs == Split(basePath)
  IN  Join(SubSeq(segs, 1, Len(segs) - 1))

\* BabylonURDFLoader.ts 254-281
resolvePath(path, workingPath, packages) ==
  IF StartsWith(path, PackageScheme) /\ PackagePath(path, packages) # << >>
    THEN PackagePath(path, packages) \o <<"/">> \o Join(PackageRest(path))
  ELSE IF StartsWith(path, ParentMarker)
    THEN CollapseSeparators(ParentPath(workingPath) \o <<"/">> \o Sub(path, 4, Len(path)))
  ELSE IF StartsWith(path, HttpPrefix) \/ StartsWith(path, <<"/">>)
    THEN path
  ELSE LET basePath == IF EndsWith(workingPath, <<"/">>) THEN workingPath
                                                          ELSE workingPath \o <<"/">>
       IN  CollapseSeparators(basePath \o path)

\* ------------------------------------------------ inputs of the paths
MaxSegments == 2

\* the paths of up to MaxSegments segments, an empty segment included
Rests ==
  { Join(segs) : segs \in SeqsUpTo({ <<"d">>, <<"m">>, << >> }, MaxSegments) \ { << >> } }
HttpHost == HttpPrefix \o SchemeMarker \o <<"h">>
References ==
  { pre \o rest :
      pre \in { << >>, ParentMarker, <<"/">>, HttpHost \o <<"/">>,
                PackageScheme \o <<"p", "/">>, PackageScheme \o <<"q", "/">> },
      rest \in Rests }
WorkingPaths ==
  { << >>, <<"u">>, <<"/", "a", "/", "u">>, <<"/", "a", "/", "u", "/">>,
    HttpHost \o <<"/", "u">>, HttpHost \o <<"/", "u", "/">> }
PackageMaps ==
  { << >>, <<"p">> :> <<"/", "k">>, <<"p">> :> <<"/", "k", "/">>,
    <<"p">> :> (HttpHost \o <<"/", "k">>) }
Filenames ==
  { pre \o rest : pre \in { << >>, ParentMarker, <<"d", "/">> \o ParentMarker }, rest \in Rests }
BaseDirs ==
  { <<"b">>, <<"a", "/", "b">>, <<"a", "/", "b", "/">>, <<"/", "a", "/", "b">> }

ResolveInputs ==
  { [fn |-> "resolvePath", arg |-> [path |-> r, workingPath |-> w, packages |-> k],
     done |-> FALSE, out |-> "none"] : r \in References, w \in WorkingPaths, k \in PackageMaps }
FullPathInputs ==
  { [fn |-> "fullPath", arg |-> [baseUrl |-> b, filename |-> f],
     done |-> FALSE, out |-> "none"] : b \in BaseDirs, f \in Filenames }

\* one call of resolvePath: it has no throw, it returns a string
ApplyResolvePath ==
  /\ eval.fn = "resolvePath" /\ ~eval.done
  /\ eval' = [eval EXCEPT !.done = TRUE,
                          !.out = [threw |-> FALSE,
                                   value |-> resolvePath(eval.arg.path, eval.arg.workingPath,
                                                         eval.arg.packages)]]
  /\ UNCHANGED << loaderVars, viewVars >>

\* urdfLoader.ts 240-247: the location the mesh loader is handed for one
\* filename
ApplyFullPath ==
  /\ eval.fn = "fullPath" /\ ~eval.done
  /\ eval' = [eval EXCEPT !.done = TRUE,
                          !.out = LET fullPath == FullPath(eval.arg.baseUrl, eval.arg.filename)
                                  IN  ImportLocation(RootUrl(fullPath), SceneFilename(fullPath))]
  /\ UNCHANGED << loaderVars, viewVars >>

\* ------------------------------------------- the rules of the paths
\* a directory without one trailing separator and without its last segment
ParentDirectory(dir) ==
  LET d == IF EndsWith(dir, <<"/">>) THEN Sub(dir, 1, Len(dir) - 1) ELSE dir
  IN  Sub(d, 1, LastIndexOf(d, "/") - 1)

\* a path under a directory: one separator between the two
Under(dir, path) == IF EndsWith(dir, <<"/">>) THEN dir \o path ELSE dir \o <<"/">> \o path

\* every run of separators is one separator, but for the marker of a URL scheme
NormalizeSeparators(s) ==
  LET i == IndexOf(s, SchemeMarker)
  IN  IF i = 0 THEN CollapseSeparators(s)
      ELSE Sub(s, 1, i + 2) \o CollapseSeparators(Sub(s, i + 3, Len(s)))

IsPackageReference(path) == StartsWith(path, PackageScheme)
IsMapped(path, packages) == IsPackageReference(path) /\ PackagePrefix(path) \in DOMAIN packages

\* C11: for every reference that is not a package reference without a
\* mapping, resolvePath returns what the four rules give: the mapped
\* directory, a separator and the rest for a mapped package reference; the
\* reference itself when it starts with http or with a separator; for a
\* reference starting with ../, the reference without that one marker under
\* the parent directory of workingPath, with or without a trailing separator
\* on workingPath; any other reference under workingPath.
C11_ResolvePathFollowsTheFourRules ==
  (eval.fn = "resolvePath" /\ eval.done) =>
    LET path == eval.arg.path
        workingPath == eval.arg.workingPath
        packages == eval.arg.packages
    IN  (~IsPackageReference(path) \/ IsMapped(path, packages)) =>
          /\ ~eval.out.threw
          /\ eval.out.value =
               IF IsMapped(path, packages)
                 THEN packages[PackagePrefix(path)] \o <<"/">> \o Join(PackageRest(path))
               ELSE IF StartsWith(path, HttpPrefix) \/ StartsWith(path, <<"/">>)
                 THEN path
               ELSE IF StartsWith(path, ParentMarker)
                 THEN NormalizeSeparators(Under(ParentDirectory(workingPath), Sub(path, 4, Len(path))))
               ELSE NormalizeSeparators(Under(workingPath, path))

\* C12: for a package reference whose package has no mapping, resolvePath
\* reports an error and returns no location.
C12_UnmappedPackageIsAnError ==
  (eval.fn = "resolvePath" /\ eval.done) =>
    ((IsPackageReference(eval.arg.path) /\ ~IsMapped(eval.arg.path, eval.arg.packages))
       => eval.out.threw)

\* two separators in a row at position i of s that are not the two of the
\* marker of a URL scheme
SeparatorRunAt(s, i) ==
  /\ s[i] = "/" /\ s[i + 1] = "/"
  /\ ~(i >= 2 /\ s[i - 1] = ":" /\ (i + 2 > Len(s) \/ s[i + 2] # "/"))

\* C23: a location that resolvePath returns under the package rule, the
\* parent-relative rule or the base-relative rule has no two separators in
\* a row outside the marker of a URL scheme, also when the package
\* directory or workingPath ends with a separator.
C23_NoRepeatedSeparators ==
  (eval.fn = "resolvePath" /\ eval.done) =>
    LET path == eval.arg.path
    IN  (\/ IsMapped(path, eval.arg.packages)
         \/ /\ ~IsPackageReference(path)
            /\ ~StartsWith(path, HttpPrefix)
            /\ ~StartsWith(path, <<"/">>))
          => \A i \in 1..(Len(eval.out.value) - 1) : ~SeparatorRunAt(eval.out.value, i)

\* C13: parseURDF fails with an error for text that is not well-formed and
\* for a well-formed document without a robot element; a call that was
\* delivered such a document throws and has built nothing.
C13_NoRobotContainerFailsTheParse ==
  \A c \in Calls :
    (pc[c] \notin { "idle", "fetch" } /\ pc[c] # "thrown") =>
      (urdfContent[c].wellFormed /\ urdfContent[c].robot)

\* C17: for a filename that begins with ../ the location handed to the mesh
\* loader is the rest of the filename under the parent directory of baseUrl
\* (read up to repeated separators), and a filename that does not begin with
\* ../ is handed on whole.
C17_InlineResolutionIsParentRelative ==
  (eval.fn = "fullPath" /\ eval.done) =>
    LET filename == eval.arg.filename
    IN  /\ StartsWith(filename, ParentMarker) =>
             CollapseSeparators(eval.out) =
               CollapseSeparators(Under(ParentDirectory(eval.arg.baseUrl), Sub(filename, 4, Len(filename))))
        /\ ~StartsWith(filename, ParentMarker) => EndsWith(eval.out, filename)

\* ====================================================== numeric fields
\* A number of the script is a number, NaN or undefined.
Num(n) == [kind |-> "number", val |-> n]
NaN == [kind |-> "NaN", val |-> 0]
Undefined == [kind |-> "undefined", val |-> 0]

Digits == { "0", "1", "2" }
DigitValue(ch) == IF ch = "0" THEN 0 ELSE IF ch = "1" THEN 1 ELSE 2

\* str.split(" "): the segments between single spaces, empty ones included
RECURSIVE SplitSpace(_)
SplitSpace(s) ==
  LET i == IndexOf(s, <<" ">>)
  IN  IF i = 0 THEN << s >>
      ELSE << Sub(s, 1, i - 1) >> \o SplitSpace(Sub(s, i + 1, Len(s)))

\* the value of a string of digits
RECURSIVE Decimal(_)
Decimal(t) == IF Len(t) = 0 THEN 0 ELSE 10 * Decimal(Sub(t, 1, Len(t) - 1)) + DigitValue(t[Len(t)])

\* the length of the longest prefix of t that is made of digits
DigitPrefix(t) ==
  CHOOSE k \in 0..Len(t) :
    /\ \A i \in 1..k : t[i] \in Digits
    /\ k < Len(t) => t[k + 1] \notin Digits

\* parseFloat(t): the number at the start of t, NaN if t starts with none
ParseFloat(t) == IF DigitPrefix(t) = 0 THEN NaN ELSE Num(Decimal(Sub(t, 1, DigitPrefix(t))))

\* Number(t): 0 for the empty string, the number t is, NaN for any other t
ToNumber(t) ==
  IF Len(t) = 0 THEN Num(0)
  ELSE IF DigitPrefix(t) = Len(t) THEN Num(Decimal(t))
  ELSE NaN

\* getAttribute(name) || fallback: an absent or empty attribute is the fallback
Attr(v) == [present |-> TRUE, value |-> v]
AbsentAttr == [present |-> FALSE, value |-> << >>]
AttributeOr(attr, fallback) == IF attr.present /\ attr.value # << >> THEN attr.value ELSE fallback
Zeros == <<"0", " ", "0", " ", "0">>
Ones == <<"1", " ", "1", " ", "1">>

\* urdfParser.ts 169-177 and 186-190: split, parseFloat, NaN to 0
ParseVector(attr) ==
  LET tokens == SplitSpace(AttributeOr(attr, Zeros))
  IN  [i \in 1..Len(tokens) |->
         IF ParseFloat(tokens[i]).kind = "NaN" THEN Num(0) ELSE ParseFloat(tokens[i])]

\* urdfParser.ts 163-181
parseOrigin(xyzAttr, rpyAttr) == [xyz |-> ParseVector(xyzAttr), rpy |-> ParseVector(rpyAttr)]

\* urdfParser.ts 183-193, for a joint with an axis element
parseAxis(xyzAttr) == ParseVector(xyzAttr)

\* urdfParser.ts 120-121 and 127: split, Number, the first three entries
ParseScale(attr) ==
  LET scaleStr == AttributeOr(attr, Ones)
      scaleVals == [i \in 1..Len(SplitSpace(scaleStr)) |-> ToNumber(SplitSpace(scaleStr)[i])]
  IN  [i \in 1..3 |-> IF i <= Len(scaleVals) THEN scaleVals[i] ELSE Undefined]

\* ------------------------------------------ inputs of the numeric fields
MaxAttrLen == 5
AttrChars == { "1", "2", "x", " " }
Attrs == { Attr(v) : v \in SeqsUpTo(AttrChars, MaxAttrLen) } \cup { AbsentAttr }

NumberInputs ==
  { [fn |-> "parseOrigin", arg |-> [xyz |-> a, rpy |-> AbsentAttr], done |-> FALSE, out |-> "none"] :
      a \in Attrs }
    \cup
  { [fn |-> "parseOrigin", arg |-> [xyz |-> AbsentAttr, rpy |-> a], done |-> FALSE, out |-> "none"] :
      a \in Attrs }
    \cup
  { [fn |-> "parseAxis", arg |-> [xyz |-> a], done |-> FALSE, out |-> "none"] : a \in Attrs }
    \cup
  { [fn |-> "parseScale", arg |-> [scale |-> a], done |-> FALSE, out |-> "none"] : a \in Attrs }

ApplyParseOrigin ==
  /\ eval.fn = "parseOrigin" /\ ~eval.done
  /\ eval' = [eval EXCEPT !.done = TRUE, !.out = parseOrigin(eval.arg.xyz, eval.arg.rpy)]
  /\ UNCHANGED << loaderVars, viewVars >>

ApplyParseAxis ==
  /\ eval.fn = "parseAxis" /\ ~eval.done
  /\ eval' = [eval EXCEPT !.done = TRUE, !.out = parseAxis(eval.arg.xyz)]
  /\ UNCHANGED << loaderVars, viewVars >>

ApplyParseScale ==
  /\ eval.fn = "parseScale" /\ ~eval.done
  /\ eval' = [eval EXCEPT !.done = TRUE, !.out = ParseScale(eval.arg.scale)]
  /\ UNCHANGED << loaderVars, viewVars >>

\* the tokens of an attribute: what stands between runs of spaces
Words(attr) == SelectSeq(SplitSpace(attr.value), LAMBDA t : t # << >>)

\* a vector read from an attribute: three numbers; where the attribute has
\* an i-th token, the number that token is, and 0 if the token starts with
\* no number
ThreeNumbersOf(attr, v) ==
  /\ Len(v) = 3
  /\ \A i \in 1..Len(v) : v[i].kind = "number"
  /\ \A i \in 1..3 :
       (i <= Len(Words(attr)) /\ i <= Len(v)) =>
         LET t == Words(attr)[i]
         IN  /\ DigitPrefix(t) = Len(t) => v[i] = Num(Decimal(t))
             /\ DigitPrefix(t) = 0 => v[i] = Num(0)

\* C14: every xyz, rpy, axis and scale attribute is read as exactly three
\* numbers, never NaN or undefined: a token that is a number keeps its
\* value and a token that is no number is 0, also when there are fewer
\* than three tokens or repeated spaces.
C14_EveryVectorIsThreeNumbers ==
  /\ (eval.fn = "parseOrigin" /\ eval.done) =>
       ThreeNumbersOf(eval.arg.xyz, eval.out.xyz) /\ ThreeNumbersOf(eval.arg.rpy, eval.out.rpy)
  /\ (eval.fn = "parseAxis" /\ eval.done) => ThreeNumbersOf(eval.arg.xyz, eval.out)
  /\ (eval.fn = "parseScale" /\ eval.done) => ThreeNumbersOf(eval.arg.scale, eval.out)

\* ================================================== BabylonURDFLoader
\* BabylonURDFLoader.ts 88-95: one node per link element, by name
BabylonLinkMap(doc) == { doc.links[i].name : i \in 1..Len(doc.links) }

\* BabylonURDFLoader.ts 106-157: joints.forEach; a joint element without a
\* type, without a parent or child element, or whose parent or child link is not in
\* linkMap, is left before its node is made; otherwise its node is put in
\* jointMap and the child link is parented under it (away from the joint
\* node it was under).  The state: the names in jointMap, in order, and for
\* every link the joint node it is under ("" for none).
RECURSIVE processJoints(_, _, _)
processJoints(doc, i, st) ==
  IF i > Len(doc.joints) THEN st
  ELSE LET joint == doc.joints[i]
       IN  IF "type" \notin joint.declares \/ ~(joint.parentEl /\ joint.childEl)
             THEN processJoints(doc, i + 1, st)
           ELSE IF joint.parent \notin BabylonLinkMap(doc) \/ joint.child \notin BabylonLinkMap(doc)
             THEN processJoints(doc, i + 1, st)
           ELSE processJoints(doc, i + 1,
                              [jointMap |-> Append(st.jointMap, joint.name),
                               parent |-> [st.parent EXCEPT ![joint.child] = joint.name]])

\* BabylonURDFLoader.ts 283-298: the child links are the first children of
\* the nodes in jointMap (reading the name of the first child of a node
\* without children throws); the other links go under robotRoot
assembleRobot(doc) ==
  LET st == processJoints(doc, 1, [jointMap |-> << >>,
                                   parent |-> [n \in BabylonLinkMap(doc) |-> ""]])
      children == [k \in 1..Len(st.jointMap) |->
                     { n \in BabylonLinkMap(doc) : st.parent[n] = st.jointMap[k] }]
  IN  IF \E k \in 1..Len(st.jointMap) : children[k] = {}
        THEN [threw |-> TRUE, roots |-> {}]
        ELSE [threw |-> FALSE,
              roots |-> BabylonLinkMap(doc) \ UNION { children[k] : k \in 1..Len(st.jointMap) }]

AssembleInputs ==
  { [fn |-> "assembleRobot", arg |-> [doc |-> d], done |-> FALSE, out |-> "none"] : d \in TreeDocs }

ApplyAssembleRobot ==
  /\ eval.fn = "assembleRobot" /\ ~eval.done
  /\ eval' = [eval EXCEPT !.done = TRUE, !.out = assembleRobot(eval.arg.doc)]
  /\ UNCHANGED << loaderVars, viewVars >>

\* the names of the links that loadURDFRobot parents under robotRoot
LoaderRootNames(doc) ==
  LET rootLinks == RootLinks(ParseLinks(doc), ParseJoints(doc))
  IN  { rootLinks[i].name : i \in 1..Len(rootLinks) }

\* C18: assembleRobot puts under robotRoot the links that are the child of
\* no joint of the document, which are the root links of loadURDFRobot: the
\* child of a joint that was skipped for its missing parent link is not
\* among them.
C18_SameRootsAsLoadURDFRobot ==
  (eval.fn = "assembleRobot" /\ eval.done) =>
    /\ ~eval.out.threw
    /\ eval.out.roots = LoaderRootNames(eval.arg.doc)

\* ------------------------------------- the evaluations of the functions
\* ============================================================ rotations
\* An angle is a number of quarter turns (a multiple of 90 degrees); its
\* cosine and sine are integers.
MaxQuarterTurns == 3
QuarterTurns == 0..MaxQuarterTurns
Cos(q) == << 1, 0, -1, 0 >>[(q % 4) + 1]
Sin(q) == << 0, 1, 0, -1 >>[(q % 4) + 1]

\* 3x3 matrices as rows of columns, acting on column vectors
MatMul(a, b) ==
  [i \in 1..3 |-> [j \in 1..3 |-> a[i][1] * b[1][j] + a[i][2] * b[2][j] + a[i][3] * b[3][j]]]

\* the rotations about the fixed axes
Rx(q) == << << 1, 0, 0 >>, << 0, Cos(q), -Sin(q) >>, << 0, Sin(q), Cos(q) >> >>
Ry(q) == << << Cos(q), 0, Sin(q) >>, << 0, 1, 0 >>, << -Sin(q), 0, Cos(q) >> >>
Rz(q) == << << Cos(q), -Sin(q), 0 >>, << Sin(q), Cos(q), 0 >>, << 0, 0, 1 >> >>

\* Matrix.RotationYawPitchRoll of the engine, called at urdfLoader.ts 149:
\* roll about Z first, then pitch about X, then yaw about Y
RotationYawPitchRoll(yaw, pitch, roll) == MatMul(Ry(yaw), MatMul(Rx(pitch), Rz(roll)))

\* A component of a unit quaternion of these rotations is 0, 1/2, 1/sqrt 2 or
\* 1, with a sign: it is kept as four times its square, with its sign
\* (0, 1, 2, 4). d / (2 sqrt t), for the quotients of FromRotationMatrix:
Sgn(d) == IF d > 0 THEN 1 ELSE IF d < 0 THEN -1 ELSE 0
Abs(d) == IF d < 0 THEN -d ELSE d
Quotient(d, t) == Sgn(d) * ((d * d) \div t)

\* Quaternion.FromRotationMatrix of the engine, called at urdfLoader.ts 151:
\* by the trace when it is positive, otherwise by the largest diagonal entry
FromRotationMatrix(m) ==
  LET trace == m[1][1] + m[2][2] + m[3][3]
      tx == 1 + m[1][1] - m[2][2] - m[3][3]
      ty == 1 + m[2][2] - m[1][1] - m[3][3]
      tz == 1 + m[3][3] - m[1][1] - m[2][2]
  IN  IF trace > 0
        THEN [w |-> trace + 1,
              x |-> Quotient(m[3][2] - m[2][3], trace + 1),
              y |-> Quotient(m[1][3] - m[3][1], trace + 1),
              z |-> Quotient(m[2][1] - m[1][2], trace + 1)]
      ELSE IF m[1][1] > m[2][2] /\ m[1][1] > m[3][3]
        THEN [w |-> Quotient(m[3][2] - m[2][3], tx),
              x |-> tx,
              y |-> Quotient(m[1][2] + m[2][1], tx),
              z |-> Quotient(m[1][3] + m[3][1], tx)]
      ELSE IF m[2][2] > m[3][3]
        THEN [w |-> Quotient(m[1][3] - m[3][1], ty),
              x |-> Quotient(m[1][2] + m[2][1], ty),
              y |-> ty,
              z |-> Quotient(m[2][3] + m[3][2], ty)]
      ELSE [w |-> Quotient(m[2][1] - m[1][2], tz),
            x |-> Quotient(m[1][3] + m[3][1], tz),
            y |-> Quotient(m[2][3] + m[3][2], tz),
            z |-> tz]

\* urdfLoader.ts 147-153
rpyToQuaternion(roll, pitch, yaw) == FromRotationMatrix(RotationYawPitchRoll(yaw, pitch, roll))

\* the rotation a unit quaternion stands for. Four times the product of two
\* components is the root of the product of their kept values, signed; an
\* entry off the diagonal is twice a sum or a difference of two products.
Root(n) == CHOOSE r \in 0..4 : r * r = n
Product(a, b) == Sgn(a) * Sgn(b) * Root(Abs(a) * Abs(b))
Half(n) == n \div 2
RotationOf(q) ==
  << << 1 - Half(Abs(q.y) + Abs(q.z)),
        Half(Product(q.x, q.y) - Product(q.z, q.w)),
        Half(Product(q.x, q.z) + Product(q.y, q.w)) >>,
     << Half(Product(q.x, q.y) + Product(q.z, q.w)),
        1 - Half(Abs(q.x) + Abs(q.z)),
        Half(Product(q.y, q.z) - Product(q.x, q.w)) >>,
     << Half(Product(q.x, q.z) - Product(q.y, q.w)),
        Half(Product(q.y, q.z) + Product(q.x, q.w)),
        1 - Half(Abs(q.x) + Abs(q.y)) >> >>

RpyInputs ==
  { [fn |-> "rpyToQuaternion", arg |-> [roll |-> r, pitch |-> p, yaw |-> y], done |-> FALSE, out |-> "none"] :
      r \in QuarterTurns, p \in QuarterTurns, y \in QuarterTurns }

ApplyRpyToQuaternion ==
  /\ eval.fn = "rpyToQuaternion" /\ ~eval.done
  /\ eval' = [eval EXCEPT !.done = TRUE,
                          !.out = rpyToQuaternion(eval.arg.roll, eval.arg.pitch, eval.arg.yaw)]
  /\ UNCHANGED << loaderVars, viewVars >>

\* the quaternion of the engine's matrix stands for that matrix
QuaternionStandsForItsMatrix ==
  eval.fn = "rpyToQuaternion" /\ eval.done =>
    RotationOf(eval.out) = RotationYawPitchRoll(eval.arg.yaw, eval.arg.pitch, eval.arg.roll)

\* C26: for angles that are multiples of 90 degrees, the quaternion that
\* rpyToQuaternion(roll, pitch, yaw) returns stands for the fixed-axis
\* rotation Rz(yaw) Ry(pitch) Rx(roll).
C26_RpyIsFixedAxisZYX ==
  eval.fn = "rpyToQuaternion" /\ eval.done =>
    RotationOf(eval.out) = MatMul(Rz(eval.arg.yaw), MatMul(Ry(eval.arg.pitch), Rx(eval.arg.roll)))

\* the triples for which the two rotations agree are not all of them: a roll
\* of a quarter turn alone is turned about Z
C26_RollAloneIsAboutZ ==
  eval.fn = "rpyToQuaternion" /\ eval.done /\ eval.arg = [roll |-> 1, pitch |-> 0, yaw |-> 0] =>
    RotationOf(eval.out) = Rz(1)

PureInputs == ResolveInputs \cup FullPathInputs \cup NumberInputs \cup AssembleInputs \cup RpyInputs

InitPure == InitLoader /\ InitView /\ eval \in PureInputs

NextPure ==
  \/ ApplyResolvePath
  \/ ApplyFullPath
  \/ ApplyParseOrigin
  \/ ApplyParseAxis
  \/ ApplyParseScale
  \/ ApplyAssembleRobot
  \/ ApplyRpyToQuaternion

SpecPure == InitPure /\ [][NextPure]_vars

====
